---- MODULE Spec2Model ----
(***************************************************************************)
(* scrapy/utils/deprecate.py: the attribute() deprecation notice and the   *)
(* classes built by create_deprecated_class().                             *)
(*                                                                         *)
(* A class is a record (name, module, mro, meta); class objects are the    *)
(* indices of the sequence `classes`.  Every call of                       *)
(* create_deprecated_class builds one metaclass DeprecatedClass, a closure *)
(* over the call's arguments: the records of `factories`.  The warning     *)
(* channel (warnings.warn) is the sequence `warnings`.  A string built by  *)
(* str.format or % is the sequence of its pieces.  `last` is the outcome    *)
(* of the latest operation; rootcalls[f] counts the calls f's first class  *)
(* has received (a history variable).  Class statements have one base.     *)
(***************************************************************************)
EXTENDS Integers, Sequences, FiniteSets, TLC

VARIABLES classes, factories, warnings, last, rootcalls

vars == <<classes, factories, warnings, last, rootcalls>>

\* ---------------------------------------------------------------- bounds
MaxNew == 2
MaxWarnings == 2

\* ------------------------------------------------------------- constants
None == "None"
NoClass == 0
NotAClass == 0 - 1
TypeMeta == 0

ScrapyDeprecationWarning == "ScrapyDeprecationWarning"
DefaultVersion == "0.12"
AttributeStacklevel == 3
ClassStacklevel == 2
ThisModule == "scrapy.utils.deprecate"

DefaultSubclassWarnMessage ==
    <<"{cls}", " inherits from deprecated class ", "{old}",
      ", please inherit from ", "{new}", ".">>
DefaultInstanceWarnMessage ==
    <<"{cls}", " is deprecated, instantiate ", "{new}", " instead.">>
AttributeTemplate ==
    <<"%s", ".", "%s",
      " attribute is deprecated and will be no longer supported in Scrapy ",
      "%s", ", use ", "%s", ".", "%s", " attribute instead">>

\* ------------------------------------------------------ inputs of the model
ClassNames == <<"object", "NewName", "Other", "OldName", "A", "B", "C", "D">>
UserModule == "user"
Omitted == "omitted"
Versions == {Omitted, "1.0"}
AttributeNames == {<<"old_attr", "new_attr">>}
LibModule == "lib"
CustomSubclassWarnMessage == <<"{new}", " replaces ", "{old}", " in ", "{cls}">>
CustomInstanceWarnMessage == <<"use ", "{new}", ", not ", "{cls}">>
DefaultOptions ==
    [warn_category |-> ScrapyDeprecationWarning,
     subclass_warn_message |-> DefaultSubclassWarnMessage,
     instance_warn_message |-> DefaultInstanceWarnMessage]
\* the calls of the factory tried: its defaults from a frame whose module
\* inspect cannot tell, and every option overridden from module "user"
CustomOptions ==
    [warn_category |-> "UserWarning",
     subclass_warn_message |-> CustomSubclassWarnMessage,
     instance_warn_message |-> CustomInstanceWarnMessage]
FactoryCalls ==
    { [options |-> DefaultOptions, parent_module |-> None],
      [options |-> CustomOptions, parent_module |-> UserModule] }

\* ------------------------------------------------------------- helpers
ClassIds == 1..Len(classes)

InSeq(x, s) == \E i \in 1..Len(s) : s[i] = x

_clspath(cls) == cls.module \o "." \o cls.name

\* str.format(**kw): every replacement field named in kw is substituted
Format(template, kw) ==
    [i \in 1..Len(template) |->
        IF template[i] \in DOMAIN kw THEN kw[template[i]] ELSE template[i]]

\* template % args: the k-th "%s" takes the k-th argument
RECURSIVE PercentFormat(_, _)
PercentFormat(template, args) ==
    IF template = <<>> THEN <<>>
    ELSE IF Head(template) = "%s"
         THEN <<Head(args)>> \o PercentFormat(Tail(template), Tail(args))
         ELSE <<Head(template)>> \o PercentFormat(Tail(template), args)

\* warnings.warn(message, category, stacklevel)
warn(channel, message, category, stacklevel) ==
    Append(channel, [message |-> message, category |-> category,
                     stacklevel |-> stacklevel])

NoResult == [op |-> "init", cls |-> NoClass, sub |-> NoClass,
             inst |-> [type |-> NoClass, class |-> NoClass], args |-> <<>>,
             result |-> None, raised |-> None]

\* ------------------------------------------- the host's class construction
\* type.__new__ picks the most derived metaclass: a base built by another
\* DeprecatedClass conflicts with metacls (TypeError)
TypeNewFails(all, metacls, base) ==
    all[base].meta \notin {TypeMeta, metacls}

\* type.__new__(metacls, name, (base,), namespace)
TypeNew(all, metacls, cls, module, base) ==
    [name |-> ClassNames[cls], module |-> module, mro |-> <<cls>> \o all[base].mro,
     meta |-> metacls]

inspect_isclass(x) == x \in ClassIds

\* ------------------------------------------------ DeprecatedClass (47-86)
\* __new__ without the `is None` test: the marker follows the latest class
DeprecatedClass_new_overwriting(deprecated_class, cls) == cls

\* __new__: the marker after constructing cls
DeprecatedClass_new(deprecated_class, cls) ==
    IF deprecated_class = NoClass THEN cls ELSE deprecated_class

\* __init__ passing old=_clspath(new_class)
DeprecatedClass_init_old_is_new(meta, all, cls, channel) ==
    LET old == meta.deprecated_class
    IN  IF cls # old
        THEN warn(channel,
                  Format(meta.subclass_warn_message,
                         [k \in {"{cls}", "{old}", "{new}"} |->
                            CASE k = "{cls}" -> _clspath(all[cls])
                              [] k = "{old}" -> _clspath(all[meta.new_class])
                              [] k = "{new}" -> _clspath(all[meta.new_class])]),
                  meta.warn_category, ClassStacklevel)
        ELSE channel

\* __init__ taking the direct base, bases[0], for the deprecated class
DeprecatedClass_init_old_is_base(meta, all, cls, channel) ==
    LET old == meta.deprecated_class
    IN  IF cls # old
        THEN warn(channel,
                  Format(meta.subclass_warn_message,
                         [k \in {"{cls}", "{old}", "{new}"} |->
                            CASE k = "{cls}" -> _clspath(all[cls])
                              [] k = "{old}" -> _clspath(all[all[cls].mro[2]])
                              [] k = "{new}" -> _clspath(all[meta.new_class])]),
                  meta.warn_category, ClassStacklevel)
        ELSE channel

\* __init__: the warning channel after initialising cls; `all` holds cls
DeprecatedClass_init(meta, all, cls, channel) ==
    LET old == meta.deprecated_class
    IN  IF cls # old
        THEN warn(channel,
                  Format(meta.subclass_warn_message,
                         [k \in {"{cls}", "{old}", "{new}"} |->
                            CASE k = "{cls}" -> _clspath(all[cls])
                              [] k = "{old}" -> _clspath(all[old])
                              [] k = "{new}" -> _clspath(all[meta.new_class])]),
                  meta.warn_category, ClassStacklevel)
        ELSE channel

\* __subclasscheck__ with candidates = {cls}
DeprecatedClass_subclasscheck_cls_only(meta, cls, sub) ==
    IF ~inspect_isclass(sub)
    THEN [result |-> None, raised |-> "TypeError"]
    ELSE LET mro == classes[sub].mro
             candidates == {cls}
         IN  [result |-> IF \E i \in 1..Len(mro) : mro[i] \in candidates
                         THEN "True" ELSE "False",
              raised |-> None]

\* __subclasscheck__ without the inspect.isclass test
DeprecatedClass_subclasscheck_unchecked(meta, cls, sub) ==
    LET mro == IF sub \in ClassIds THEN classes[sub].mro ELSE <<>>
        candidates == {cls, meta.new_class}
    IN  [result |-> IF \E i \in 1..Len(mro) : mro[i] \in candidates
                    THEN "True" ELSE "False",
         raised |-> None]

\* __subclasscheck__ with new_class kept in one place shared by every call
\* of the factory
DeprecatedClass_subclasscheck_shared(meta, cls, sub) ==
    IF ~inspect_isclass(sub)
    THEN [result |-> None, raised |-> "TypeError"]
    ELSE LET mro == classes[sub].mro
             candidates == {cls} \cup {factories[f].new_class : f \in DOMAIN factories}
         IN  [result |-> IF \E i \in 1..Len(mro) : mro[i] \in candidates
                         THEN "True" ELSE "False",
              raised |-> None]

\* __subclasscheck__
DeprecatedClass_subclasscheck(meta, cls, sub) ==
    IF ~inspect_isclass(sub)
    THEN [result |-> None, raised |-> "TypeError"]
    ELSE LET mro == classes[sub].mro
             candidates == {cls, meta.new_class}
         IN  [result |-> IF \E i \in 1..Len(mro) : mro[i] \in candidates
                         THEN "True" ELSE "False",
              raised |-> None]

\* any(cls.__subclasscheck__(c) for c in order): stops at the first True and
\* at the first exception
RECURSIVE AnySubclasscheck(_, _, _)
AnySubclasscheck(meta, cls, order) ==
    IF order = <<>> THEN [result |-> "False", raised |-> None]
    ELSE LET r == DeprecatedClass_subclasscheck(meta, cls, Head(order))
         IN  IF r.raised # None \/ r.result = "True" THEN r
             ELSE AnySubclasscheck(meta, cls, Tail(order))

\* __instancecheck__ that consults type(inst) alone
DeprecatedClass_instancecheck_type_only(meta, cls, inst) ==
    {AnySubclasscheck(meta, cls, <<inst.type>>)}

\* __instancecheck__: the set {type(inst), inst.__class__} is iterated in an
\* order the hashes decide; the outcome of every order
DeprecatedClass_instancecheck(meta, cls, inst) ==
    LET orders == IF inst.type = inst.class THEN {<<inst.type>>}
                  ELSE {<<inst.type, inst.class>>, <<inst.class, inst.type>>}
    IN  {AnySubclasscheck(meta, cls, o) : o \in orders}

\* __call__ without the `cls is deprecated_class` test
DeprecatedClass_call_unguarded(meta, cls, channel) ==
    warn(channel,
         Format(meta.instance_warn_message,
                [k \in {"{cls}", "{new}"} |->
                   IF k = "{cls}" THEN _clspath(classes[cls])
                   ELSE _clspath(classes[meta.new_class])]),
         meta.warn_category, ClassStacklevel)

\* __call__: the warning channel after instantiating cls
DeprecatedClass_call(meta, cls, channel) ==
    IF cls = meta.deprecated_class
    THEN warn(channel,
              Format(meta.instance_warn_message,
                     [k \in {"{cls}", "{new}"} |->
                        IF k = "{cls}" THEN _clspath(classes[cls])
                        ELSE _clspath(classes[meta.new_class])]),
              meta.warn_category, ClassStacklevel)
    ELSE channel

\* ------------------------------------------- create_deprecated_class (15-94)
\* the state a call leaves: (classes, factories, warnings, raised)
Created(all, metas, channel, new_class, options, parent_module) ==
    LET metacls == Len(metas) + 1
        cls == Len(all) + 1
        meta0 == [new_class |-> new_class, deprecated_class |-> NoClass,
                  warn_category |-> options.warn_category,
                  subclass_warn_message |-> options.subclass_warn_message,
                  instance_warn_message |-> options.instance_warn_message]
        built == TypeNew(all, metacls, cls, ThisModule, new_class)
        meta == [meta0 EXCEPT !.deprecated_class =
                                DeprecatedClass_new(meta0.deprecated_class, cls)]
        deprecated_cls == IF parent_module # None
                          THEN [built EXCEPT !.module = parent_module]
                          ELSE built
    IN  IF TypeNewFails(all, metacls, new_class)
        THEN [classes |-> all, factories |-> metas, warnings |-> channel,
              raised |-> "TypeError"]
        ELSE [classes |-> Append(all, deprecated_cls),
              factories |-> Append(metas, meta),
              warnings |-> DeprecatedClass_init(meta, Append(all, built), cls, channel),
              raised |-> None]

\* ---------------------------------------------------------------- Init
\* module lib of the docstring (36-39): NewName, an unrelated class Other and
\* OldName = create_deprecated_class('OldName', NewName)
LibClasses ==
    << [name |-> ClassNames[1], module |-> "builtins", mro |-> <<1>>,
        meta |-> TypeMeta],
       [name |-> ClassNames[2], module |-> LibModule, mro |-> <<2, 1>>,
        meta |-> TypeMeta],
       [name |-> ClassNames[3], module |-> LibModule, mro |-> <<3, 1>>,
        meta |-> TypeMeta] >>

Lib == Created(LibClasses, <<>>, <<>>, 2, DefaultOptions, LibModule)

Init ==
    /\ classes = Lib.classes
    /\ factories = Lib.factories
    /\ warnings = Lib.warnings
    /\ last = NoResult
    /\ rootcalls = [f \in DOMAIN Lib.factories |-> 0]

\* the same module with a second, unrelated rename:
\* OldOther = create_deprecated_class('OldOther', Other, ...)
InitTwo ==
    \E options \in {DefaultOptions, CustomOptions} :
       LET lib2 == Created(Lib.classes, Lib.factories, Lib.warnings, 3,
                           options, LibModule)
       IN  /\ classes = lib2.classes
           /\ factories = lib2.factories
           /\ warnings = lib2.warnings
           /\ last = NoResult
           /\ rootcalls = [f \in DOMAIN lib2.factories |-> 0]

\* --------------------------------------------------------------- actions
\* the classes built since the library was imported
NewClasses ==
    Cardinality({c \in ClassIds : classes[c].module \notin {"builtins", LibModule}})

\* create_deprecated_class(name, new_class, ...)
create_deprecated_class(new_class, call) ==
    LET r == Created(classes, factories, warnings, new_class, call.options,
                     call.parent_module)
    IN  /\ NewClasses < MaxNew
        /\ Len(r.warnings) <= MaxWarnings
        /\ classes' = r.classes
        /\ factories' = r.factories
        /\ warnings' = r.warnings
        /\ rootcalls' = [f \in DOMAIN r.factories |->
                           IF f \in DOMAIN rootcalls THEN rootcalls[f] ELSE 0]
        /\ last' = [NoResult EXCEPT !.op = "create", !.raised = r.raised,
                       !.cls = IF r.raised = None THEN Len(r.classes) ELSE NoClass]

\* class <name>(base): pass, in module UserModule
Declare(base) ==
    LET cls == Len(classes) + 1
        metacls == classes[base].meta
        built == TypeNew(classes, metacls, cls, UserModule, base)
    IN  /\ NewClasses < MaxNew
        /\ classes' = Append(classes, built)
        /\ last' = [NoResult EXCEPT !.op = "declare", !.cls = cls]
        /\ UNCHANGED rootcalls
        /\ IF metacls = TypeMeta
           THEN UNCHANGED <<factories, warnings>>
           ELSE LET meta == [factories[metacls] EXCEPT !.deprecated_class =
                               DeprecatedClass_new(@, cls)]
                IN  /\ factories' = [factories EXCEPT ![metacls] = meta]
                    /\ warnings' = DeprecatedClass_init(meta, classes', cls, warnings)
                    /\ Len(warnings') <= MaxWarnings

\* the first class constructed through metaclass f
RootOf(f) ==
    CHOOSE c \in ClassIds :
        /\ classes[c].meta = f
        /\ \A d \in ClassIds : classes[d].meta = f => c <= d

\* cls(): type(cls).__call__(cls)
Instantiate(cls) ==
    /\ warnings' = IF classes[cls].meta = TypeMeta THEN warnings
                   ELSE DeprecatedClass_call(factories[classes[cls].meta], cls,
                                             warnings)
    /\ Len(warnings') <= MaxWarnings
    /\ last' = [NoResult EXCEPT !.op = "instantiate", !.cls = cls]
    /\ rootcalls' = [f \in DOMAIN rootcalls |->
                       IF cls = RootOf(f) THEN rootcalls[f] + 1 ELSE rootcalls[f]]
    /\ UNCHANGED <<classes, factories>>

\* issubclass(sub, cls) for a class cls built by a DeprecatedClass
IsSubclass(cls, sub) ==
    /\ classes[cls].meta # TypeMeta
    /\ LET r == DeprecatedClass_subclasscheck(factories[classes[cls].meta], cls, sub)
       IN  last' = [NoResult EXCEPT !.op = "issubclass", !.cls = cls, !.sub = sub,
                                    !.result = r.result, !.raised = r.raised]
    /\ UNCHANGED <<classes, factories, warnings, rootcalls>>

\* isinstance(inst, cls): true at once when type(inst) is cls, else
\* type(cls).__instancecheck__(cls, inst)
IsInstance(cls, inst) ==
    /\ classes[cls].meta # TypeMeta
    /\ \E r \in IF inst.type = cls THEN {[result |-> "True", raised |-> None]}
                ELSE DeprecatedClass_instancecheck(factories[classes[cls].meta],
                                                   cls, inst) :
          last' = [NoResult EXCEPT !.op = "isinstance", !.cls = cls, !.inst = inst,
                                   !.result = r.result, !.raised = r.raised]
    /\ UNCHANGED <<classes, factories, warnings, rootcalls>>

\* attribute(obj, oldattr, newattr[, version]); obj is read through
\* obj.__class__ alone
\* the message with the version argument dropped
AttributeMessage_fixed_version(cname, oldattr, newattr, version) ==
    PercentFormat(AttributeTemplate,
                  <<cname, oldattr, DefaultVersion, cname, newattr>>)

AttributeMessage(cname, oldattr, newattr, version) ==
    PercentFormat(AttributeTemplate,
                  <<cname, oldattr,
                    IF version = Omitted THEN DefaultVersion ELSE version,
                    cname, newattr>>)

attribute(obj_class, oldattr, newattr, version) ==
    LET cname == classes[obj_class].name
    IN  /\ Len(warnings) < MaxWarnings
        /\ warnings' = warn(warnings,
                            AttributeMessage(cname, oldattr, newattr, version),
                            ScrapyDeprecationWarning, AttributeStacklevel)
        /\ last' = [NoResult EXCEPT !.op = "attribute", !.cls = obj_class,
                                    !.args = <<oldattr, newattr, version>>]
        /\ UNCHANGED <<classes, factories, rootcalls>>

Instances ==
    [type : ClassIds, class : ClassIds \cup {NotAClass}]

CreateStep ==
    \E n \in ClassIds \ {1}, call \in FactoryCalls : create_deprecated_class(n, call)
DeclareStep == \E b \in ClassIds \ {1} : Declare(b)
InstantiateStep == \E c \in ClassIds : Instantiate(c)
IsSubclassStep == \E c \in ClassIds, sub \in ClassIds \cup {NotAClass} : IsSubclass(c, sub)
AttributeStep ==
    \E c \in ClassIds, names \in AttributeNames, v \in Versions :
        attribute(c, names[1], names[2], v)
IsInstanceStep == \E c \in ClassIds, x \in Instances : IsInstance(c, x)

Next ==
    \/ CreateStep
    \/ DeclareStep
    \/ InstantiateStep

Spec == Init /\ [][Next]_vars

NextChecks ==
    \/ DeclareStep
    \/ IsSubclassStep
    \/ IsInstanceStep

SpecChecks == Init /\ [][NextChecks]_vars

\* issubclass(sub, R) on the deprecated classes themselves
RootIsSubclassStep ==
    \E f \in DOMAIN factories, sub \in ClassIds : IsSubclass(RootOf(f), sub)

NextTwo ==
    \/ DeclareStep
    \/ InstantiateStep
    \/ RootIsSubclassStep

SpecTwo == InitTwo /\ [][NextTwo]_vars

NextAttribute ==
    \/ AttributeStep
    \/ InstantiateStep

SpecAttribute == Init /\ [][NextAttribute]_vars

\* ======================================================== the claims
Path(c) == _clspath(classes[c])
Ancestors(c) == {classes[c].mro[i] : i \in 1..Len(classes[c].mro)}
Deprecated(c) == c \in ClassIds /\ classes[c].meta # TypeMeta
IsRootClass(c) == Deprecated(c) /\ c = RootOf(classes[c].meta)
IsDerived(c) == Deprecated(c) /\ c # RootOf(classes[c].meta)
NewClassOf(f) == factories[f].new_class
Appended == SubSeq(warnings', Len(warnings) + 1, Len(warnings'))

InstanceWarning(f, c) ==
    [message |-> Format(factories[f].instance_warn_message,
                        ("{cls}" :> Path(c)) @@ ("{new}" :> Path(NewClassOf(f)))),
     category |-> factories[f].warn_category,
     stacklevel |-> 2]

InstanceWarningCount(f) ==
    Cardinality({i \in 1..Len(warnings) :
                   \E c \in ClassIds : /\ classes[c].meta = f
                                       /\ warnings[i] = InstanceWarning(f, c)})

C1_Step ==
    (last'.op = "instantiate") =>
        IF IsRootClass(last'.cls)
        THEN warnings' = Append(warnings,
                                InstanceWarning(classes[last'.cls].meta, last'.cls))
        ELSE warnings' = warnings

\* C1: calling a root R appends exactly the instance warning of its factory
\* (instance_warn_message with R's and N's paths, category warn_category);
\* calling any other class appends nothing; the instance warnings of a factory
\* in the channel are as many as the calls its root received.
C1_InstanceWarnings ==
    /\ [](\A f \in DOMAIN factories : InstanceWarningCount(f) = rootcalls[f])
    /\ [][C1_Step]_vars

C1_Witness ==
    /\ last.op = "instantiate"
    /\ IsDerived(last.cls)
    /\ rootcalls[classes[last.cls].meta] >= 1
    /\ InstanceWarningCount(classes[last.cls].meta) >= 1

C2_Step ==
    (last'.op = "declare" /\ IsRootClass(classes'[last'.cls].mro[2])) =>
        LET R == classes'[last'.cls].mro[2]
            f == classes[R].meta
            w == warnings'[Len(warnings')]
        IN  /\ Len(warnings') = Len(warnings) + 1
            /\ SubSeq(warnings', 1, Len(warnings)) = warnings
            /\ w.category = factories[f].warn_category
            /\ InSeq(_clspath(classes'[last'.cls]), w.message)
            /\ InSeq(Path(R), w.message)
            /\ InSeq(Path(NewClassOf(f)), w.message)

\* C2: declaring a class S whose base is a root R appends exactly one warning,
\* of the factory's category, whose message contains the paths of S, of R and
\* of new_class N.
C2_DirectSubclassWarning == [][C2_Step]_vars

C2_Witness ==
    /\ last.op = "declare"
    /\ IsRootClass(classes[last.cls].mro[2])
    /\ Len(warnings) >= 1
    /\ InSeq(Path(last.cls), warnings[Len(warnings)].message)

Redirected(f, c) == NewClassOf(f) \in Ancestors(c) /\ RootOf(f) \notin Ancestors(c)

C3_Inv ==
    /\ (/\ last.op = "issubclass"
        /\ IsRootClass(last.cls)
        /\ last.sub \in ClassIds
        /\ Redirected(classes[last.cls].meta, last.sub))
       => (last.result = "True" /\ last.raised = None)
    /\ (/\ last.op = "isinstance"
        /\ IsRootClass(last.cls)
        /\ last.inst.class \in ClassIds
        /\ Redirected(classes[last.cls].meta, last.inst.type))
       => (last.result = "True" /\ last.raised = None)

C3_Step == (last'.op \in {"issubclass", "isinstance"}) => warnings' = warnings

C4_Inv ==
    (last.op = "issubclass" /\ last.sub \notin ClassIds) =>
        (last.raised = "TypeError" /\ last.result = None)

C4_Step ==
    (last'.op = "issubclass" /\ last'.sub \notin ClassIds) =>
        (warnings' = warnings /\ factories' = factories)

\* C4: the subclass test of a root or derived class on something that is not a
\* class raises TypeError and returns nothing; the warning channel and the
\* markers are as before the call.
C4_NonClassRaises == []C4_Inv /\ [][C4_Step]_vars

C4_Witness ==
    /\ last.op = "issubclass"
    /\ last.sub = NotAClass
    /\ IsDerived(last.cls)
    /\ last.raised = "TypeError"
    /\ Len(warnings) >= 1

Unrelated(f, g) ==
    /\ NewClassOf(f) \notin Ancestors(NewClassOf(g))
    /\ NewClassOf(g) \notin Ancestors(NewClassOf(f))

Pairs == {p \in (DOMAIN factories) \X (DOMAIN factories) :
            p[1] # p[2] /\ Unrelated(p[1], p[2])}

C5_Step ==
    \A p \in Pairs :
        /\ factories'[p[2]].deprecated_class = factories[p[2]].deprecated_class
        /\ (last'.op \in {"declare", "instantiate"} /\ classes'[last'.cls].meta = p[1])
           => \A i \in 1..Len(Appended) :
                 /\ Appended[i].category = factories[p[1]].warn_category
                 /\ InSeq(Path(RootOf(p[1])), Appended[i].message)
                 /\ InSeq(Path(NewClassOf(p[1])), Appended[i].message)
                 /\ ~InSeq(Path(RootOf(p[2])), Appended[i].message)
                 /\ ~InSeq(Path(NewClassOf(p[2])), Appended[i].message)

C5_Inv ==
    \A p \in Pairs :
        /\ factories[p[1]].deprecated_class = RootOf(p[1])
        /\ (/\ last.op = "issubclass"
            /\ last.cls = RootOf(p[2])
            /\ last.sub \in ClassIds
            /\ NewClassOf(p[1]) \in Ancestors(last.sub)
            /\ NewClassOf(p[2]) \notin Ancestors(last.sub))
           => last.result = "False"

\* C5: for two factories whose new classes are unrelated, a declaration or a
\* call on a class built by one appends only warnings of that factory's
\* category naming its own root and new class and not the other's; each marker
\* is its factory's first class; a class with the one's new class, and not the
\* other's, among its ancestors is no subclass of the other's root.
C5_IndependentRoots == []C5_Inv /\ [][C5_Step]_vars

C5_Witness ==
    /\ Pairs # {}
    /\ \E p \in Pairs :
          /\ last.op = "issubclass"
          /\ last.cls = RootOf(p[2])
          /\ last.sub \in ClassIds
          /\ IsDerived(last.sub)
          /\ classes[last.sub].meta = p[1]
          /\ last.result = "False"
          /\ rootcalls[p[2]] >= 1
          /\ Len(warnings) = 2

C6_Step ==
    (last'.op = "attribute") =>
        /\ last'.raised = None
        /\ Len(warnings') = Len(warnings) + 1
        /\ SubSeq(warnings', 1, Len(warnings)) = warnings
        /\ LET w == warnings'[Len(warnings')]
           IN  /\ w.category = "ScrapyDeprecationWarning"
               /\ w.stacklevel = 3
               /\ InSeq(classes[last'.cls].name, w.message)
               /\ InSeq(last'.args[1], w.message)
               /\ InSeq(last'.args[2], w.message)
               /\ InSeq(IF last'.args[3] = Omitted THEN "0.12" ELSE last'.args[3],
                        w.message)

\* C6: a call of attribute raises nothing and appends exactly one warning, of
\* category ScrapyDeprecationWarning and stacklevel 3, whose message contains
\* the name of obj's class, both attribute names and the version ('0.12' when
\* the argument is omitted).
C6_AttributeWarning == [][C6_Step]_vars

C6_Witness ==
    /\ last.op = "attribute"
    /\ last.args[3] = Omitted
    /\ Len(warnings) = 2
    /\ InSeq("0.12", warnings[2].message)
    /\ warnings[1].stacklevel = 2

C7_Step ==
    /\ \A f \in DOMAIN factories :
          /\ f \in DOMAIN factories'
          /\ factories'[f].deprecated_class = factories[f].deprecated_class
    /\ (last'.op = "create" /\ last'.raised = None) =>
          /\ Len(factories') = Len(factories) + 1
          /\ factories'[Len(factories')].deprecated_class = Len(classes')
          /\ classes'[Len(classes')].meta = Len(factories')
          /\ warnings' = warnings

C7_Inv ==
    \A f \in DOMAIN factories :
        /\ factories[f].deprecated_class # NoClass
        /\ factories[f].deprecated_class = RootOf(f)

\* C7: a call of the factory sets its marker to the class it builds and emits
\* no warning; no later step changes a marker, which stays the first class
\* built through its metaclass.
C7_MarkerSetOnce == []C7_Inv /\ [][C7_Step]_vars

C7_Witness ==
    /\ Len(factories) >= 2
    /\ last.op = "instantiate"
    /\ \E c \in ClassIds : IsDerived(c) /\ classes[c].meta = Len(factories)
    /\ rootcalls[Len(factories)] >= 1

C8_Step ==
    (last'.op = "declare" /\ classes'[last'.cls].meta # TypeMeta) =>
        LET f == classes'[last'.cls].meta
        IN  warnings' =
              Append(warnings,
                     [message |-> Format(factories[f].subclass_warn_message,
                                         ("{cls}" :> _clspath(classes'[last'.cls])) @@
                                         ("{old}" :> Path(RootOf(f))) @@
                                         ("{new}" :> Path(NewClassOf(f)))),
                      category |-> factories[f].warn_category,
                      stacklevel |-> 2])

\* C8: constructing any class but the root through a factory's metaclass
\* appends exactly one warning: subclass_warn_message with {cls} the new
\* class's path, {old} the root's path (also when the base is a derived class)
\* and {new} the new class N's path.
C8_EverySubclassWarns == [][C8_Step]_vars

C8_Witness ==
    /\ last.op = "declare"
    /\ IsDerived(last.cls)
    /\ IsDerived(classes[last.cls].mro[2])
    /\ Len(warnings) = 2

\* C9: a derived class S passes the subclass test only for classes with S
\* among their ancestors, and the instance test only for objects whose type or
\* __class__ has S among its ancestors.
C9_DerivedIsOrdinary ==
    /\ (last.op = "issubclass" /\ IsDerived(last.cls) /\ last.result = "True")
       => last.cls \in Ancestors(last.sub)
    /\ (last.op = "isinstance" /\ IsDerived(last.cls) /\ last.result = "True")
       => \/ last.cls \in Ancestors(last.inst.type)
          \/ (last.inst.class \in ClassIds /\ last.cls \in Ancestors(last.inst.class))

\* C10: for an object whose __class__ is a class, the instance test against a
\* root R raises nothing and is true exactly when R or N is among the
\* ancestors of the object's type or of its __class__.
C10_RootInstanceTest ==
    (last.op = "isinstance" /\ IsRootClass(last.cls) /\ last.inst.class \in ClassIds) =>
        LET f == classes[last.cls].meta
            hit == \E k \in {last.inst.type, last.inst.class} :
                      last.cls \in Ancestors(k) \/ NewClassOf(f) \in Ancestors(k)
        IN  /\ last.raised = None
            /\ last.result = IF hit THEN "True" ELSE "False"

C10_Witness ==
    /\ last.op = "isinstance"
    /\ IsRootClass(last.cls)
    /\ last.inst.class \in ClassIds
    /\ last.inst.class # last.inst.type
    /\ NewClassOf(classes[last.cls].meta) \notin Ancestors(last.inst.type)
    /\ last.result = "True"

\* the test answering False for an object of a class unrelated to R and N
C10_WitnessFalse ==
    /\ last.op = "isinstance"
    /\ IsRootClass(last.cls)
    /\ last.inst.class = last.inst.type
    /\ last.inst.type # 1
    /\ last.result = "False"
====
